---- MODULE Spec2Model ----
(***************************************************************************)
(* Model of api/line.js, the LINE webhook bot with the hybrid FAQ lookup   *)
(* (embeddings first, keyword fallback) and the OpenAI fallback, and of    *)
(* the pure functions normalize and simpleScore of the keyword-only bot    *)
(* that the same file holds.                                               *)
(*                                                                         *)
(* Text is a sequence of one-character tokens.  The tokens stand for:      *)
(*   "a" "b" "c" "d" "e" "g" "u"   ASCII lower-case letters                *)
(*   "A" "B" "D"                   ASCII upper-case letters                *)
(*   "FW_A" "FW_a"                 U+FF21 and U+FF41, full-width A and a   *)
(*   "QM"  "FW_QM"                 ? and U+FF1F full-width ?               *)
(*   "SP"                          the space character                     *)
(*   "EI" "GYO" "JI" "KAN"         the four characters of U+55B6 U+696D    *)
(*                                 U+6642 U+9593 ("opening hours")         *)
(*   "TEI" "KYU" "BI"              the three characters of U+5B9A U+4F11   *)
(*                                 U+65E5 ("regular holiday")              *)
(* Every token is one UTF-16 code unit, so Len is JavaScript's .length.    *)
(*                                                                         *)
(* The similarities of cosineSim and the scores of simpleScore are IEEE    *)
(* doubles, computed with the roundings of the code.  The scores of the    *)
(* keyword stage of findFAQ are single quotients of two lengths, compared  *)
(* with each other and with 0.6 and 0.8: they are kept as exact rationals  *)
(* <<num, den>>, den > 0, whose order is the order of those doubles.       *)
(***************************************************************************)
EXTENDS Integers, Sequences, FiniteSets, TLC

(* ------------------------------ bounds --------------------------------- *)

\* number of arrays two concurrent invocations may allocate beyond the
\* initial one (one per reload that gets past the fetch)
MaxReloads == 2

\* the same when a single invocation handles single events on the full inputs
MaxSeqReloads == 1

\* events carried by one webhook request when a single invocation runs on the
\* full inputs
MaxEvents == 1

\* the same two bounds when a single invocation loops over several events
MaxLoopReloads == 2

MaxLoopEvents == 2

\* events carried by one webhook request when two invocations run concurrently
MaxConcEvents == 1

\* the clock runs from StartMs to StartMs + MaxIntervals * FAQ_CACHE_MS
MaxIntervals == 1

\* calls of simpleScore whose arguments and results are remembered
MaxScores == 2

(* --------------------------- program constants ------------------------- *)

FAQ_CACHE_MS == 10 * 60 * 1000

\* SIM_THRESHOLD = 0.65: the double of that literal is defined with cosineSim

\* the literal 0.6 of the keyword stage as the rational 3/5
KW_THRESHOLD == <<3, 5>>

\* the literal 0.8 of the strong-keyword override as the rational 4/5
KW_BOOST == <<4, 5>>

EIGYOJIKAN == <<"EI", "GYO", "JI", "KAN">>

TEIKYUBI == <<"TEI", "KYU", "BI">>

DEBUG_WORD == <<"d", "e", "b", "u", "g">>

qKeys == <<"question", "shitsumon", "Question">>

aKeys == <<"answer", "kaitou", "Answer">>

tKeys == <<"tags", "tag", "tagu", "Tags">>

(* ------------------------------ rationals ------------------------------ *)

RLess(x, y) == x[1] * y[2] < y[1] * x[2]

RLeq(x, y) == x[1] * y[2] <= y[1] * x[2]

RMax(x, y) == IF RLess(x, y) THEN y ELSE x

Max(a, b) == IF a < b THEN b ELSE a

(* ------------------------- String.prototype ---------------------------- *)

IsSpace(c) == c = "SP"

\* str.includes(sub)
Includes(str, sub) ==
    \E i \in 0..(Len(str) - Len(sub)) :
        \A j \in 1..Len(sub) : str[i + j] = sub[j]

RECURSIVE TrimStart(_)
TrimStart(s) ==
    IF s = <<>> THEN <<>>
    ELSE IF IsSpace(Head(s)) THEN TrimStart(Tail(s)) ELSE s

RECURSIVE TrimEnd(_)
TrimEnd(s) ==
    IF s = <<>> THEN <<>>
    ELSE IF IsSpace(s[Len(s)]) THEN TrimEnd(SubSeq(s, 1, Len(s) - 1)) ELSE s

\* str.trim()
Trim(s) == TrimEnd(TrimStart(s))

\* one character through normalize("NFKC")
NFKCChar(c) ==
    CASE c = "FW_A" -> "A"
      [] c = "FW_a" -> "a"
      [] c = "FW_QM" -> "QM"
      [] OTHER -> c

\* one character through toLowerCase()
LowerChar(c) ==
    CASE c = "A" -> "a"
      [] c = "B" -> "b"
      [] c = "D" -> "d"
      [] c = "FW_A" -> "FW_a"
      [] OTHER -> c

\* the characters of the punctuation class that the alphabet contains
IsPunct(c) == c \in {"QM", "FW_QM"}

MapSeq(s, Op(_)) == [i \in 1..Len(s) |-> Op(s[i])]

ToLowerCase(s) == MapSeq(s, LowerChar)

\* str.normalize("NFKC")
NFKC(s) == MapSeq(s, NFKCChar)

normalizeJa(s) ==
    LET folded == ToLowerCase(NFKC(s))
        noPunct == SelectSeq(folded, LAMBDA c : ~IsPunct(c))
    IN  SelectSeq(noPunct, LAMBDA c : ~IsSpace(c))

(* ------------------------- Number (IEEE 754) --------------------------- *)
(* The arithmetic of lines 83-92 and 278-286 is done on doubles: every     *)
(* quotient, product and square root is rounded to the nearest double.     *)

\* A natural number of any size is the sequence of its digits in base LIMB,
\* least significant first, with no leading zero digit (<<>> is 0).
LIMB == 32768

RECURSIVE BigOf(_)
BigOf(n) == IF n = 0 THEN <<>> ELSE <<n % LIMB>> \o BigOf(n \div LIMB)

\* the number d + LIMB * x
Cons(d, x) == IF d = 0 /\ x = <<>> THEN <<>> ELSE <<d>> \o x

BigLow(x) == IF x = <<>> THEN 0 ELSE x[1]

BigHigh(x) == IF x = <<>> THEN <<>> ELSE Tail(x)

\* -1, 0 or 1 as x < y, x = y or x > y
RECURSIVE BigCmp(_, _)
BigCmp(x, y) ==
    IF Len(x) # Len(y) THEN (IF Len(x) < Len(y) THEN -1 ELSE 1)
    ELSE IF x = <<>> THEN 0
    ELSE IF x[Len(x)] # y[Len(x)] THEN (IF x[Len(x)] < y[Len(x)] THEN -1 ELSE 1)
    ELSE BigCmp(SubSeq(x, 1, Len(x) - 1), SubSeq(y, 1, Len(x) - 1))

\* x + y + c for a carry c of 0 or 1
RECURSIVE BigAdd(_, _, _)
BigAddDigit(x, y, s) == <<s % LIMB>> \o BigAdd(BigHigh(x), BigHigh(y), s \div LIMB)
BigAdd(x, y, c) ==
    IF x = <<>> /\ y = <<>> THEN (IF c = 0 THEN <<>> ELSE <<c>>)
    ELSE BigAddDigit(x, y, BigLow(x) + BigLow(y) + c)

\* x - y - b for a borrow b of 0 or 1, when that is not negative
RECURSIVE BigSub(_, _, _)
BigSubDigit(x, y, d) ==
    Cons((d + LIMB) % LIMB, BigSub(Tail(x), BigHigh(y), IF d < 0 THEN 1 ELSE 0))
BigSub(x, y, b) ==
    IF x = <<>> THEN <<>> ELSE BigSubDigit(x, y, x[1] - BigLow(y) - b)

\* x * k + c for digits k and c
RECURSIVE BigMulSmall(_, _, _)
BigMulSmallDigit(x, k, p) == Cons(p % LIMB, BigMulSmall(Tail(x), k, p \div LIMB))
BigMulSmall(x, k, c) ==
    IF x = <<>> THEN (IF c = 0 THEN <<>> ELSE <<c>>)
    ELSE BigMulSmallDigit(x, k, x[1] * k + c)

RECURSIVE BigMul(_, _)
BigMul(x, y) ==
    IF y = <<>> THEN <<>>
    ELSE BigAdd(BigMulSmall(x, y[1], 0), Cons(0, BigMul(x, Tail(y))), 0)

\* 2^k
Pow2(k) == [i \in 1..(k \div 15) |-> 0] \o <<2 ^ (k % 15)>>

RECURSIVE BitsOf(_)
BitsOf(n) == IF n = 0 THEN 0 ELSE 1 + BitsOf(n \div 2)

\* the number of binary digits of x
BigBits(x) == IF x = <<>> THEN 0 ELSE 15 * (Len(x) - 1) + BitsOf(x[Len(x)])

\* the largest digit k with d * k <= r, looked for between lo and hi
RECURSIVE BigDivDigit(_, _, _, _)
BigDivDigit(d, r, lo, hi) ==
    IF lo = hi THEN lo
    ELSE IF BigCmp(BigMulSmall(d, (lo + hi + 1) \div 2, 0), r) <= 0
        THEN BigDivDigit(d, r, (lo + hi + 1) \div 2, hi)
        ELSE BigDivDigit(d, r, lo, ((lo + hi + 1) \div 2) - 1)

\* quotient and remainder of n by d, d > 0: long division, one digit of n
\* at a time from the most significant one
RECURSIVE BigDivMod(_, _)
BigDivEmit(r, q, d, k) == [q |-> Cons(k, q), r |-> BigSub(r, BigMulSmall(d, k, 0), 0)]
BigDivStep(r, q, d) == BigDivEmit(r, q, d, BigDivDigit(d, r, 0, LIMB - 1))
BigDivNext(lo, hi, d) == BigDivStep(Cons(lo, hi.r), hi.q, d)
BigDivMod(n, d) ==
    IF n = <<>> THEN [q |-> <<>>, r |-> <<>>]
    ELSE BigDivNext(n[1], BigDivMod(Tail(n), d), d)

\* the integer square root of n, one digit at a time: r is the root of
\* n \div LIMB^2, and the last digit is the largest k with
\* (r * LIMB + k)^2 <= n
RECURSIVE BigSqrtDigit(_, _, _, _)
BigSqrtDigit(r, n, lo, hi) ==
    IF lo = hi THEN Cons(lo, r)
    ELSE IF BigCmp(BigMul(Cons((lo + hi + 1) \div 2, r), Cons((lo + hi + 1) \div 2, r)), n) <= 0
        THEN BigSqrtDigit(r, n, (lo + hi + 1) \div 2, hi)
        ELSE BigSqrtDigit(r, n, lo, ((lo + hi + 1) \div 2) - 1)

RECURSIVE BigSqrt(_)
BigSqrt(n) ==
    IF n = <<>> THEN <<>>
    ELSE BigSqrtDigit(BigSqrt(SubSeq(n, 3, Len(n))), n, 0, LIMB - 1)

\* A finite double is sgn * m * 2^e with sgn in {-1, 0, 1} and, unless it is
\* zero, a mantissa m of exactly 53 bits; nan marks NaN.
DZero == [nan |-> FALSE, sgn |-> 0, m |-> <<>>, e |-> 0]
DNaN == [nan |-> TRUE, sgn |-> 0, m |-> <<>>, e |-> 0]

\* the double sgn * m * 2^e for a mantissa m of 53 bits, or m = 2^53
Normal(m, e, sgn) ==
    IF m = Pow2(53) THEN [nan |-> FALSE, sgn |-> sgn, m |-> Pow2(52), e |-> e + 1]
    ELSE [nan |-> FALSE, sgn |-> sgn, m |-> m, e |-> e]

\* m or m + 1 as the rest compares with one half (c), ties to even
RoundUp(m, c, sticky, e, sgn) ==
    IF c > 0 \/ (c = 0 /\ (sticky \/ m[1] % 2 = 1))
        THEN Normal(BigAdd(m, <<>>, 1), e, sgn)
        ELSE Normal(m, e, sgn)

RoundHalf(qr, half, sticky, e, sgn) == RoundUp(qr.q, BigCmp(qr.r, half), sticky, e, sgn)

RoundAt(q, sticky, e, sgn, d) ==
    RoundHalf(BigDivMod(q, Pow2(d)), Pow2(d - 1), sticky, e + d, sgn)

\* the double nearest to sgn * (q + f) * 2^e, ties to even, for q of at least
\* 54 bits and a fraction 0 <= f < 1 that is not zero exactly when sticky
RoundBig(q, sticky, e, sgn) == RoundAt(q, sticky, e, sgn, BigBits(q) - 53)

DDivRound(dm, e, sgn) == RoundBig(dm.q, dm.r # <<>>, e, sgn)

DDivShift(p, q, e, sgn, s) == DDivRound(BigDivMod(BigMul(p, Pow2(s)), q), e - s, sgn)

\* the double nearest to sgn * (p / q) * 2^e, for p of at most 55 bits
DDivBig(p, q, e, sgn) == DDivShift(p, q, e, sgn, 55 + BigBits(q) - BigBits(p))

Abs(n) == IF n < 0 THEN 0 - n ELSE n
Sign(n) == IF n < 0 THEN -1 ELSE IF n = 0 THEN 0 ELSE 1

\* the double p / q for integers p and q > 0; for a decimal literal such as
\* 0.65 = 65/100 it is the double the literal denotes
DFromRatio(p, q) == IF p = 0 THEN DZero ELSE DDivBig(BigOf(Abs(p)), BigOf(q), 0, Sign(p))

DSqrtExact(s, n, e) == RoundBig(s, BigMul(s, s) # n, e, 1)

DSqrtScaled(n, e) == DSqrtExact(BigSqrt(n), n, e)

DSqrtShift(b, t) == DSqrtScaled(BigMul(b, Pow2(2 * t)), 0 - t)

\* Math.sqrt(n) for an integer n >= 0
DSqrt(n) == IF n = 0 THEN DZero ELSE DSqrtShift(BigOf(n), (111 - BigBits(BigOf(n))) \div 2)

\* x * y on doubles
DMul(x, y) ==
    IF x.nan \/ y.nan THEN DNaN
    ELSE IF x.sgn = 0 \/ y.sgn = 0 THEN DZero
    ELSE RoundBig(BigMul(x.m, y.m), FALSE, x.e + y.e, x.sgn * y.sgn)

\* p / y for an integer p and a double y >= 0; p is 0 whenever y is
DDivInt(p, y) ==
    IF y.nan THEN DNaN
    ELSE IF y.sgn = 0 THEN DNaN
    ELSE IF p = 0 THEN DZero
    ELSE DDivBig(BigOf(Abs(p)), y.m, 0 - y.e, Sign(p) * y.sgn)

\* -1, 0 or 1 as x < y, x = y or x > y, for doubles that are not NaN
DCmp(x, y) ==
    IF x.sgn # y.sgn THEN (IF x.sgn < y.sgn THEN -1 ELSE 1)
    ELSE IF x.sgn = 0 THEN 0
    ELSE IF x.e # y.e THEN (IF x.e < y.e THEN -1 ELSE 1) * x.sgn
    ELSE BigCmp(x.m, y.m) * x.sgn

(* ------------------------------ cosineSim ------------------------------ *)

\* what getEmbedding resolves with: the array data.data[0].embedding, or
\* undefined when the response holds no such member
Vector(v) == [isArray |-> TRUE, elems |-> v]

Undefined == [isArray |-> FALSE, elems |-> <<>>]

RECURSIVE SumTo(_, _)
SumTo(f, n) == IF n = 0 THEN 0 ELSE f[n] + SumTo(f, n - 1)

\* cosineSim(a, b) throws a TypeError: a.length or b[i] on undefined
cosineSimThrows(a, b) == ~a.isArray \/ (Len(a.elems) > 0 /\ ~b.isArray)

\* the double returned by cosineSim(a, b) on arrays of integers: NaN when an
\* operand b[i] is undefined or the quotient is 0 / 0
cosineSim(a, b) ==
    IF Len(a) > Len(b) THEN DNaN
    ELSE LET n   == Len(a)
             dot == SumTo([i \in 1..n |-> a[i] * b[i]], n)
             na  == SumTo([i \in 1..n |-> a[i] * a[i]], n)
             nb  == SumTo([i \in 1..n |-> b[i] * b[i]], n)
         IN  DDivInt(dot, DMul(DSqrt(na), DSqrt(nb)))

\* the number -1, the initial best.sim
MinusOne == DFromRatio(-1, 1)

\* x > y on doubles: false when either side is NaN
SimGt(x, y) == ~x.nan /\ ~y.nan /\ DCmp(x, y) = 1

\* x >= t on doubles: false when either side is NaN
SimGeq(x, t) == ~x.nan /\ ~t.nan /\ DCmp(x, t) >= 0

\* SIM_THRESHOLD = 0.65
SIM_THRESHOLD == DFromRatio(13, 20)

\* vectors the embeddings endpoint may answer with
Vecs == {<<0, 0>>, <<1, 0>>, <<0, 1>>, <<2, 1>>}

\* the vector of the runs with two concurrent invocations or with several
\* events per request
ConcVecs == {<<1, 0>>}

\* vectors on which records tie or nearly tie: equal, opposite or zero
\* vectors; <<1, 1>> and <<3, 3>>, parallel vectors whose similarities with
\* <<0, 1>> differ in the last bit; <<1, 1, 0, 0, 0>> and <<6, 7, 3, 5, 9>>,
\* whose cosine is 13/20 and whose similarity is the double just below 0.65
RankVecs ==
    { <<0, 0>>, <<1, 0>>, <<-1, 0>>, <<0, 1>>, <<1, 1>>, <<3, 3>>,
      <<1, 1, 0, 0, 0>>, <<6, 7, 3, 5, 9>> }

KnownVecs == Vecs \cup ConcVecs \cup RankVecs

\* cosineSim on the vectors of the runs, each similarity computed once
KnownSims == [a \in KnownVecs, b \in KnownVecs |-> cosineSim(a, b)]

\* cosineSim(a, b) for vectors a and b of the runs, looked up
Similarity(a, b) == KnownSims[a, b]

(* --------------------------- mapRowFlexible ---------------------------- *)

\* header names through toLowerCase()
LowerHeader(h) ==
    CASE h = "Question" -> "question"
      [] h = "Answer" -> "answer"
      [] h = "Tags" -> "tags"
      [] OTHER -> h

\* A parsed CSV row is the sequence of its <<header, value>> cells, in column
\* order (Object.keys order).
HasKey(row, k) == \E i \in 1..Len(row) : row[i][1] = k

ValueOf(row, k) == row[CHOOSE i \in 1..Len(row) : row[i][1] = k][2]

\* Object.keys(row).find(kk => kk.toLowerCase() === k.toLowerCase()):
\* the index of the first such column, 0 when there is none
FindKeyCI(row, k) ==
    LET hits == {i \in 1..Len(row) : LowerHeader(row[i][1]) = LowerHeader(k)}
    IN  IF hits = {} THEN 0 ELSE CHOOSE i \in hits : \A j \in hits : i <= j

RECURSIVE pick(_, _, _)
pick(row, keys, n) ==
    IF n > Len(keys) THEN <<>>
    ELSE LET k   == keys[n]
             hit == FindKeyCI(row, k)
         IN  IF HasKey(row, k) /\ Trim(ValueOf(row, k)) # <<>>
                 THEN ValueOf(row, k)
             ELSE IF hit # 0 /\ Trim(row[hit][2]) # <<>>
                 THEN row[hit][2]
             ELSE pick(row, keys, n + 1)

mapRowFlexible(row) ==
    [q    |-> Trim(pick(row, qKeys, 1)),
     a    |-> Trim(pick(row, aKeys, 1)),
     tags |-> Trim(pick(row, tKeys, 1))]

\* (parsed.data || []).map(mapRowFlexible).filter(r => r.q && r.a)
ValidRows(data) ==
    SelectSeq(MapSeq(data, mapRowFlexible), LAMBDA r : r.q # <<>> /\ r.a # <<>>)

\* the defect "qNorm: r.q": the question is stored without normalization
IndexedRecordRaw(r, emb) ==
    [q |-> r.q, a |-> r.a, tags |-> r.tags, qNorm |-> r.q, emb |-> emb]

\* the object pushed onto out for row r with embedding emb
IndexedRecord(r, emb) ==
    [q |-> r.q, a |-> r.a, tags |-> r.tags, qNorm |-> normalizeJa(r.q), emb |-> emb]

(* ------------------------------- findFAQ ------------------------------- *)

\* the value null returned by findFAQ
NoMatch == [via |-> "none"]

\* the semantic loop: best is {sim, item}, item 0 standing for null and
\* item i for list[i]; threw: a call of cosineSim threw and ended the loop.
\* Better is "if (sim > best.sim) best = { sim, item: it }".
Better(cand, best) == IF SimGt(cand.sim, best.sim) THEN cand ELSE best

RECURSIVE SemanticLoop(_, _, _, _)
SemanticLoop(list, userEmb, i, best) ==
    IF i > Len(list) THEN best
    ELSE IF cosineSimThrows(userEmb, list[i].emb) THEN [best EXCEPT !.threw = TRUE]
    ELSE SemanticLoop(list, userEmb, i + 1,
             Better([sim   |-> Similarity(userEmb.elems, list[i].emb.elems),
                     item  |-> i,
                     threw |-> FALSE], best))

\* let best = { sim: -1, item: null }
InitialBest == [sim |-> MinusOne, item |-> 0, threw |-> FALSE]

\* the defect "||" for "&&" in the two overrides: the strong keyword is
\* looked for in the query or in the question
KeywordScoreEitherSide(u, qn) ==
    LET contain ==
            IF Includes(u, qn) THEN <<Len(qn), Max(Len(u), 1)>>
            ELSE IF Includes(qn, u) THEN <<Len(u), Max(Len(qn), 1)>>
            ELSE <<0, 1>>
        hours ==
            IF Includes(u, EIGYOJIKAN) \/ Includes(qn, EIGYOJIKAN)
                THEN RMax(contain, KW_BOOST) ELSE contain
    IN  IF Includes(u, TEIKYUBI) \/ Includes(qn, TEIKYUBI)
            THEN RMax(hours, KW_BOOST) ELSE hours

\* the score of one item in the keyword loop
KeywordScore(u, qn) ==
    LET contain ==
            IF Includes(u, qn) THEN <<Len(qn), Max(Len(u), 1)>>
            ELSE IF Includes(qn, u) THEN <<Len(u), Max(Len(qn), 1)>>
            ELSE <<0, 1>>
        hours ==
            IF Includes(u, EIGYOJIKAN) /\ Includes(qn, EIGYOJIKAN)
                THEN RMax(contain, KW_BOOST) ELSE contain
    IN  IF Includes(u, TEIKYUBI) /\ Includes(qn, TEIKYUBI)
            THEN RMax(hours, KW_BOOST) ELSE hours

\* the defect "if (score >= bestK.score)": among records of equal score the
\* last one wins
RECURSIVE KeywordLoopLastWins(_, _, _, _)
KeywordLoopLastWins(list, u, i, bestK) ==
    IF i > Len(list) THEN bestK
    ELSE LET qn    == list[i].qNorm
             score == KeywordScore(u, qn)
         IN  KeywordLoopLastWins(list, u, i + 1,
                 IF qn # <<>> /\ RLeq(bestK.score, score)
                     THEN [score |-> score, item |-> i] ELSE bestK)

\* the keyword loop: bestK is {score, item}
RECURSIVE KeywordLoop(_, _, _, _)
KeywordLoop(list, u, i, bestK) ==
    IF i > Len(list) THEN bestK
    ELSE LET qn    == list[i].qNorm
             score == KeywordScore(u, qn)
         IN  KeywordLoop(list, u, i + 1,
                 IF qn # <<>> /\ RLess(bestK.score, score)
                     THEN [score |-> score, item |-> i] ELSE bestK)

\* stage 2 of findFAQ, from "const u = normalizeJa(userText)" to the end
KeywordStage(list, userText) ==
    LET bestK == KeywordLoop(list, normalizeJa(userText), 1,
                             [score |-> <<0, 1>>, item |-> 0])
    IN  IF bestK.item # 0 /\ RLeq(KW_THRESHOLD, bestK.score)
            THEN [via |-> "kw", answer |-> list[bestK.item].a,
                  q |-> list[bestK.item].q, score |-> bestK.score]
            ELSE NoMatch

\* stage 1 of findFAQ once getEmbedding(userText) has resolved with userEmb:
\* the hit returned from inside the try block, or NoMatch when the code falls
\* through to stage 2, from the if of line 375 or from the catch block
SemanticHit(list, best) ==
    IF ~best.threw /\ best.item # 0 /\ SimGeq(best.sim, SIM_THRESHOLD)
        THEN [via |-> "emb", answer |-> list[best.item].a,
              q |-> list[best.item].q, sim |-> best.sim]
        ELSE NoMatch

SemanticStage(list, userEmb) ==
    SemanticHit(list, SemanticLoop(list, userEmb, 1, InitialBest))

\* the try block of stage 1 ends in its catch block: cosineSim threw
SemanticThrows(list, userEmb) == SemanticLoop(list, userEmb, 1, InitialBest).threw

\* the hit sem of stage 1 if there is one, else what stage 2 returns
OrKeywordStage(sem, list, userText) ==
    IF sem.via # "none" THEN sem ELSE KeywordStage(list, userText)

\* the defect of a catch block that returns null instead of falling through
\* to the keyword stage
FindAfterEmbeddingNoFallback(list, userText, embOk, userEmb) ==
    IF ~embOk THEN NoMatch
    ELSE OrKeywordStage(SemanticStage(list, userEmb), list, userText)

\* findFAQ after "if (!list.length) return null", the embedding call having
\* resolved with userEmb (embOk) or thrown
FindAfterEmbedding(list, userText, embOk, userEmb) ==
    OrKeywordStage(IF embOk THEN SemanticStage(list, userEmb) ELSE NoMatch,
                   list, userText)

(* ------------- the keyword-only bot: normalize and simpleScore --------- *)

\* the literal 0.3 of simpleScore
PREFIX_DAMPING == DFromRatio(3, 10)

\* normalize(s): NFKC, lower case, whitespace removed, then punctuation
normalize(s) ==
    LET folded  == ToLowerCase(NFKC(s))
        noSpace == SelectSeq(folded, LAMBDA c : ~IsSpace(c))
    IN  SelectSeq(noSpace, LAMBDA c : ~IsPunct(c))

\* the for loop of simpleScore: the length of the common prefix of a and b
\* within their first minLen characters, counted from position i
RECURSIVE CommonPrefix(_, _, _, _)
CommonPrefix(a, b, i, minLen) ==
    IF i > minLen \/ a[i] # b[i] THEN 0
    ELSE 1 + CommonPrefix(a, b, i + 1, minLen)

\* the defect of a missing "* 0.3": the prefix score is not damped
simpleScoreUndamped(qNorm, userNorm) ==
    IF qNorm = <<>> \/ userNorm = <<>> THEN DZero
    ELSE IF qNorm = userNorm THEN DFromRatio(1, 1)
    ELSE IF Includes(userNorm, qNorm)
        THEN DFromRatio(Len(qNorm), Max(Len(userNorm), 1))
    ELSE IF Includes(qNorm, userNorm)
        THEN DFromRatio(Len(userNorm), Max(Len(qNorm), 1))
    ELSE LET minLen == IF Len(qNorm) < Len(userNorm) THEN Len(qNorm)
                                                     ELSE Len(userNorm)
         IN  DFromRatio(CommonPrefix(qNorm, userNorm, 1, minLen), Max(minLen, 1))

\* simpleScore(qNorm, userNorm): the double it returns
simpleScore(qNorm, userNorm) ==
    IF qNorm = <<>> \/ userNorm = <<>> THEN DZero
    ELSE IF qNorm = userNorm THEN DFromRatio(1, 1)
    ELSE IF Includes(userNorm, qNorm)
        THEN DFromRatio(Len(qNorm), Max(Len(userNorm), 1))
    ELSE IF Includes(qNorm, userNorm)
        THEN DFromRatio(Len(userNorm), Max(Len(qNorm), 1))
    ELSE LET minLen == IF Len(qNorm) < Len(userNorm) THEN Len(qNorm)
                                                     ELSE Len(userNorm)
             common == CommonPrefix(qNorm, userNorm, 1, minLen)
         IN  DMul(DFromRatio(common, Max(minLen, 1)), PREFIX_DAMPING)

(* ------------------------------- inputs -------------------------------- *)

\* concurrent invocations of the exported handler
Procs == {1, 2}

\* message texts a text event may carry
Texts ==
    { <<"A", "b">>,
      <<"a">>,
      <<"a", "SP", "b", "FW_QM", "c">>,
      <<"QM">>,
      <<"a">> \o EIGYOJIKAN,
      <<"D", "e", "b", "u", "g", "SP">> }

\* the events over the texts T: a text message each, and one event of another type
Events(T) == [type : {"text"}, text : T] \cup {[type |-> "other", text |-> <<>>]}

CorpusA ==
    << << <<"question", <<"A", "b", "c">> >>, <<"answer", <<"d">> >> >>,
       << <<"question", <<"FW_QM">> >>,       <<"answer", <<"e">> >> >> >>

CorpusB ==
    << << <<"Question", EIGYOJIKAN \o <<"b">> >>, <<"kaitou", <<"u", "SP">> >>,
          <<"tag", <<>> >> >>,
       << <<"Question", <<"a", "b">> >>,          <<"kaitou", <<"SP">> >>,
          <<"tag", <<"g">> >> >> >>

\* what Papa.parse may return as parsed.data for the sheet
Corpora == {CorpusA, CorpusB, <<>>}

\* the smaller inputs of the runs with two concurrent invocations or with
\* several events per request
ConcTexts == { <<"A", "b">> }

ConcCorpora == {CorpusA, <<>>}

\* texts and questions on which records tie: two questions that hold the
\* same strong keyword
RankTexts == { TEIKYUBI \o <<"a">>, <<"b">> \o TEIKYUBI }

RankCorpus ==
    << << <<"question", <<"a">> \o TEIKYUBI >>, <<"answer", <<"d">> >> >>,
       << <<"question", <<"b">> \o TEIKYUBI >>, <<"answer", <<"e">> >> >> >>

RankCorpora == {RankCorpus, <<>>}

\* questions and message texts that simpleScore is applied to once they are
\* normalized: equal, one containing the other, sharing a prefix only,
\* unrelated, or empty
LexQuestions ==
    { <<"a", "b", "c", "d", "g">>,
      <<"e">>,
      <<"A", "SP", "b", "FW_QM">>,
      <<"a", "b", "g">>,
      <<"a", "b", "c", "d", "e">>,
      <<"QM">> }

LexTexts ==
    { <<"a", "b", "c", "d", "e">>,
      <<"a", "SP", "B">> }

\* simpleScore on the normalized questions and texts of the runs, each score
\* computed once
KnownScores ==
    [qNorm \in {normalize(q) : q \in LexQuestions},
     userNorm \in {normalize(userText) : userText \in LexTexts} |->
         simpleScore(qNorm, userNorm)]

\* Date.now() at process start: any time at least FAQ_CACHE_MS after the epoch
StartMs == 2 * FAQ_CACHE_MS

ClockEnd == StartMs + MaxIntervals * FAQ_CACHE_MS

\* the amounts by which the clock advances between two steps: a whole
\* refresh interval, or also one millisecond less
CoarseTicks == {FAQ_CACHE_MS}

FineTicks == {FAQ_CACHE_MS - 1, FAQ_CACHE_MS}

(* -------------------------------- state -------------------------------- *)

VARIABLES
    heap,         \* the arrays allocated so far; a reference is an index
    cachedFAQ,    \* reference held by the module variable cachedFAQ
    lastFetchMs,  \* module variable lastFetchMs
    now,          \* Date.now()
    urlSet,       \* process.env.FAQ_SHEET_URL is set
    debugFaq,     \* process.env.DEBUG_FAQ is set
    proc,         \* per handler invocation: position and locals
    budget,       \* arrays the run may still allocate (bounds the run)
    lex           \* the last calls of simpleScore: arguments and result of each

vars == <<heap, cachedFAQ, lastFetchMs, now, urlSet, debugFaq, proc, budget, lex>>

\* simpleScore not called yet
NoLex == <<>>

NoEvent == [type |-> "none", text |-> <<>>]

NoReply == [kind |-> "none", body |-> <<>>]

\* no request received yet
NoRequest == [method |-> "none", sigOk |-> FALSE, jsonOk |-> FALSE, body |-> "none"]

\* locals of an invocation that is not handling an event
Idle ==
    [pc      |-> "idle",   \* the await the invocation is suspended at
     req     |-> NoRequest,\* method of req, and what its signature and body are:
                           \* body "events" for a value whose events are a list,
                           \* "null" for null, "notIterable" for {"events": 5}
     evLeft  |-> 0,        \* events of the request not yet started
     ev      |-> NoEvent,  \* the event being handled
     loadNow |-> 0,        \* const now of loadFAQwithEmbeddings
     rows    |-> <<>>,     \* const rows of loadFAQwithEmbeddings
     idx     |-> 0,        \* position of the for loop over rows
     out     |-> 0,        \* reference held by const out (0: none)
     list    |-> 0,        \* reference held by const list (0: none)
     embOk   |-> FALSE,    \* getEmbedding(userText) resolved
     userEmb |-> Undefined,\* const userEmb of findFAQ
     hit     |-> NoMatch,  \* const hit of the handler
     pending |-> NoReply,  \* the message of the replyToLine call in flight
     status  |-> 0,        \* HTTP status sent (0: none yet)
     steps   |-> <<>>]     \* calls and outcomes of the current event, in order

\* the shared module state, passed through the synchronous part of a step
Shared == [heap |-> heap, cachedFAQ |-> cachedFAQ, lastFetchMs |-> lastFetchMs]

Log(L, entries) == [L EXCEPT !.steps = @ \o entries]

(* ------------- the synchronous runs between two awaits ----------------- *)
(* Each operator takes the locals L of one invocation and the shared       *)
(* state G and returns both as they are when the invocation next suspends. *)

\* ev is the debug command: process.env.DEBUG_FAQ && text.trim().toLowerCase() === "debug"
IsDebug(ev) == debugFaq /\ ToLowerCase(Trim(ev.text)) = DEBUG_WORD

\* the catch block of the event loop, entered by an error thrown from origin
Catch(L, G, origin) ==
    [l |-> [Log(L, <<origin, "apology">>) EXCEPT
               !.pc = "apology",
               !.pending = [kind |-> "apology", body |-> <<>>]],
     g |-> G]

\* await replyToLine(ev.replyToken, ...) inside the try block
Reply(L, G, msg) ==
    [l |-> [Log(L, <<"replyToLine">>) EXCEPT !.pc = "reply", !.pending = msg],
     g |-> G]

\* the defect of a missing "continue": the handler goes on to callOpenAI
\* whether or not findFAQ returned a hit
AfterFindFallsThrough(L, G, hit) ==
    [l |-> [Log(L, <<IF hit.via # "none" THEN "findFAQ:hit" ELSE "findFAQ:null",
                     "callOpenAI">>) EXCEPT !.pc = "openai", !.hit = hit],
     g |-> G]

\* the handler once findFAQ has returned hit
AfterFind(L, G, hit) ==
    IF hit.via # "none"
        THEN Reply([Log(L, <<"findFAQ:hit">>) EXCEPT !.hit = hit], G,
                   [kind |-> "faq", body |-> hit.answer])
        ELSE [l |-> [Log(L, <<"findFAQ:null", "callOpenAI">>) EXCEPT
                        !.pc = "openai", !.hit = hit],
              g |-> G]

\* the defect of a missing "if (!list.length) return null" in findFAQ
AfterLoadNoEmptyTest(L, G, ref) ==
    LET L1 == [L EXCEPT !.list = ref, !.loadNow = 0, !.rows = <<>>,
                        !.idx = 0, !.out = 0]
    IN  IF IsDebug(L.ev)
            THEN Reply(L1, G, [kind |-> "debug", body |-> <<Len(G.heap[ref])>>])
        ELSE [l |-> [Log(L1, <<"getEmbedding(query)">>) EXCEPT !.pc = "queryEmb"],
              g |-> G]

\* the caller of loadFAQwithEmbeddings once it has returned the array ref:
\* the debug branch of the handler, or findFAQ up to getEmbedding(userText)
AfterLoad(L, G, ref) ==
    LET L1 == [L EXCEPT !.list = ref, !.loadNow = 0, !.rows = <<>>,
                        !.idx = 0, !.out = 0]
    IN  IF IsDebug(L.ev)
            THEN Reply(L1, G, [kind |-> "debug", body |-> <<Len(G.heap[ref])>>])
        ELSE IF Len(G.heap[ref]) = 0
            THEN AfterFind(L1, G, NoMatch)
        ELSE [l |-> [Log(L1, <<"getEmbedding(query)">>) EXCEPT !.pc = "queryEmb"],
              g |-> G]

\* the defect "<=" for "<" in the cache test
CacheFreshInclusive(len, age) == len # 0 /\ age <= FAQ_CACHE_MS

\* the cache test: cachedFAQ.length && now - lastFetchMs < FAQ_CACHE_MS
CacheFresh(len, age) == len # 0 /\ age < FAQ_CACHE_MS

\* the defect "cachedFAQ = []" followed by pushes onto cachedFAQ: the array
\* under construction is the shared one
AllocOutShared(G) ==
    [G EXCEPT !.heap = Append(@, <<>>), !.cachedFAQ = Len(G.heap) + 1]

\* const out = []
AllocOut(G) == [G EXCEPT !.heap = Append(@, <<>>)]

\* cachedFAQ = out; lastFetchMs = now
Publish(G, ref, at) == [G EXCEPT !.cachedFAQ = ref, !.lastFetchMs = at]

\* loadFAQwithEmbeddings from its first line to its first await or return
loadFAQwithEmbeddings(L, G) ==
    IF CacheFresh(Len(G.heap[G.cachedFAQ]), now - G.lastFetchMs)
        THEN AfterLoad(Log(L, <<"cached">>), G, G.cachedFAQ)
    ELSE IF ~urlSet
        THEN LET G1 == AllocOut(G)
             IN  AfterLoad(Log(L, <<"reload">>), Publish(G1, Len(G1.heap), now),
                           Len(G1.heap))
    ELSE [l |-> [Log(L, <<"reload", "fetch">>) EXCEPT !.pc = "fetch", !.loadNow = now],
          g |-> G]

\* the body of the event loop for event e, n events following it
BeginEvent(L, G, e, n) ==
    LET L0 == [Idle EXCEPT !.req = L.req, !.ev = e, !.evLeft = n]
    IN  IF e.type = "text"
            THEN IF IsDebug(e)
                     THEN loadFAQwithEmbeddings(
                              Log(L0, <<"loadFAQwithEmbeddings">>), G)
                     ELSE loadFAQwithEmbeddings(
                              Log(L0, <<"findFAQ", "loadFAQwithEmbeddings">>), G)
            ELSE Reply(L0, G, [kind |-> "fixed", body |-> <<>>])

\* the head of the event loop: e is the next event when there is one
NextEvent(L, G, e) ==
    IF L.evLeft = 0
        THEN [l |-> [Idle EXCEPT !.req = L.req, !.pc = "responded", !.status = 200],
              g |-> G]
        ELSE BeginEvent(L, G, e, L.evLeft - 1)

\* invocation p suspends with the locals and shared state of r
Commit(p, r) ==
    /\ budget' = budget - (Len(r.g.heap) - Len(heap))
    /\ budget' >= 0
    /\ proc' = [proc EXCEPT ![p] = r.l]
    /\ heap' = r.g.heap
    /\ cachedFAQ' = r.g.cachedFAQ
    /\ lastFetchMs' = r.g.lastFetchMs
    /\ UNCHANGED <<now, urlSet, debugFaq, lex>>

(* ------------------------------- actions ------------------------------- *)

\* the module as loaded, in an environment with DEBUG_FAQ set as D allows,
\* with r arrays left to allocate
InitOver(D, r) ==
    /\ heap = << <<>> >>
    /\ cachedFAQ = 1
    /\ lastFetchMs = 0
    /\ now = StartMs
    /\ urlSet \in BOOLEAN
    /\ debugFaq \in D
    /\ proc = [p \in Procs |-> Idle]
    /\ budget = r
    /\ lex = NoLex

\* handler(req, res) from its first line to await readRawBody(req)
Request(p, method, sigOk, jsonOk, body) ==
    LET L == [Idle EXCEPT !.req = [method |-> method, sigOk |-> sigOk,
                                   jsonOk |-> jsonOk, body |-> body]]
    IN  /\ proc[p].pc = "idle"
        /\ Commit(p,
               IF method # "POST"
                   THEN [l |-> [L EXCEPT !.pc = "responded", !.status = 200], g |-> Shared]
                   ELSE [l |-> [L EXCEPT !.pc = "readRawBody"], g |-> Shared])

\* an error thrown by origin leaves the handler: the promise it returned
\* rejects and no response is sent
Thrown(L, G, origin) == [l |-> [Log(L, <<origin>>) EXCEPT !.pc = "thrown"], g |-> G]

\* the defect of a handler that does not compare the signature
BodyReadUnverified(p, ok, n, e) ==
    LET L == proc[p]
    IN  /\ L.pc = "readRawBody"
        /\ Commit(p,
               IF ~ok THEN Thrown(L, Shared, "readRawBody:throw")
               ELSE IF ~L.req.jsonOk
                   THEN [l |-> [L EXCEPT !.pc = "responded", !.status = 400], g |-> Shared]
               ELSE IF L.req.body # "events" THEN Thrown(L, Shared, "events:throw")
               ELSE NextEvent([L EXCEPT !.evLeft = n], Shared, e))

\* await readRawBody(req) settles, with the body (ok) or with the error of
\* the request stream; then the handler up to the first await of the event
\* loop: body.events of null (line 475) and for-of over events that are not
\* iterable (line 476) throw a TypeError outside any try block
BodyRead(p, ok, n, e) ==
    LET L == proc[p]
    IN  /\ L.pc = "readRawBody"
        /\ Commit(p,
               IF ~ok THEN Thrown(L, Shared, "readRawBody:throw")
               ELSE IF ~L.req.sigOk
                   THEN [l |-> [L EXCEPT !.pc = "responded", !.status = 401], g |-> Shared]
               ELSE IF ~L.req.jsonOk
                   THEN [l |-> [L EXCEPT !.pc = "responded", !.status = 400], g |-> Shared]
               ELSE IF L.req.body # "events" THEN Thrown(L, Shared, "events:throw")
               ELSE NextEvent([L EXCEPT !.evLeft = n], Shared, e))

\* await fetch(url) / res.text() of loadFAQwithEmbeddings settles: data is
\* parsed.data; when the rows are all dropped the loop is skipped
FetchDone(p, ok, data, e) ==
    LET L == proc[p]
        rows == ValidRows(data)
        G1 == AllocOut(Shared)
    IN  /\ L.pc = "fetch"
        /\ Commit(p,
               IF ~ok
                   THEN Catch(Log(L, <<"fetch:failed">>), Shared,
                              IF IsDebug(L.ev) THEN "loadFAQwithEmbeddings:throw"
                                               ELSE "findFAQ:throw")
               ELSE IF rows = <<>>
                   THEN AfterLoad([L EXCEPT !.out = Len(G1.heap)],
                                  Publish(G1, Len(G1.heap), L.loadNow), Len(G1.heap))
               ELSE [l |-> [Log(L, <<"getEmbedding(row)">>) EXCEPT
                               !.pc = "indexEmb", !.rows = rows, !.idx = 1,
                               !.out = Len(G1.heap)],
                     g |-> G1])

\* await getEmbedding(r.q) of the loop over rows settles: it throws (~ok) or
\* resolves with emb, the value of data.data[0].embedding, which is undefined
\* when the response carries no vector
IndexEmbDone(p, ok, emb) ==
    LET L == proc[p]
        G1 == IF ok
                  THEN [Shared EXCEPT !.heap[L.out] =
                            Append(@, IndexedRecord(L.rows[L.idx], emb))]
                  ELSE Shared
        L1 == Log(L, <<IF ok THEN "getEmbedding(row):ok"
                             ELSE "getEmbedding(row):failed">>)
    IN  /\ L.pc = "indexEmb"
        /\ Commit(p,
               IF L.idx < Len(L.rows)
                   THEN [l |-> [Log(L1, <<"getEmbedding(row)">>) EXCEPT !.idx = @ + 1],
                         g |-> G1]
                   ELSE AfterLoad([L1 EXCEPT !.idx = @ + 1],
                                  Publish(G1, L.out, L.loadNow), L.out))

\* await getEmbedding(userText) of findFAQ settles: it throws (~ok) or
\* resolves with emb; an error thrown by cosineSim is caught like the error
\* of getEmbedding
QueryEmbFound(L1, ok, threw, hit) ==
    AfterFind(IF hit.via = "emb" THEN L1
              ELSE IF ~ok THEN Log(L1, <<"getEmbedding(query):failed", "keyword">>)
              ELSE IF threw THEN Log(L1, <<"cosineSim:throw", "keyword">>)
              ELSE Log(L1, <<"keyword">>),
              Shared, hit)

QueryEmbDone(p, ok, emb) ==
    LET L == proc[p]
    IN  /\ L.pc = "queryEmb"
        /\ Commit(p, QueryEmbFound(
               [L EXCEPT !.embOk = ok, !.userEmb = IF ok THEN emb ELSE Undefined],
               ok,
               ok /\ SemanticThrows(heap[L.list], emb),
               FindAfterEmbedding(heap[L.list], L.ev.text, ok, emb)))

\* await callOpenAI(text) settles
OpenAIDone(p, ok) ==
    LET L == proc[p]
    IN  /\ L.pc = "openai"
        /\ Commit(p, IF ok THEN Reply(L, Shared, [kind |-> "ai", body |-> <<>>])
                           ELSE Catch(L, Shared, "callOpenAI:throw"))

\* the defect of an apology sent from a finally block: it follows the reply
\* of the try block whether that reply was delivered or not
ReplyDoneFinally(p, ok, e) ==
    LET L == proc[p]
    IN  /\ L.pc = "reply"
        /\ Commit(p, Catch(L, Shared, IF ok THEN "replyToLine:ok"
                                             ELSE "replyToLine:throw"))

\* await replyToLine(...) of the try block settles
ReplyDone(p, ok, e) ==
    LET L == proc[p]
    IN  /\ L.pc = "reply"
        /\ Commit(p, IF ok THEN NextEvent(L, Shared, e)
                           ELSE Catch(L, Shared, "replyToLine:throw"))

\* await replyToLine(...) of the catch block settles; its error is swallowed
ApologyDone(p, ok, e) ==
    /\ proc[p].pc = "apology"
    /\ Commit(p, NextEvent(proc[p], Shared, e))

\* time passes
Tick(d) ==
    /\ now + d <= ClockEnd
    /\ now' = now + d
    /\ UNCHANGED <<heap, cachedFAQ, lastFetchMs, urlSet, debugFaq, proc, budget, lex>>

\* simpleScore(qNorm, userNorm) of the keyword-only bot returns; the calls
\* before the last MaxScores are forgotten
SimpleScore(qNorm, userNorm) ==
    LET call == [qNorm |-> qNorm, userNorm |-> userNorm,
                 score |-> KnownScores[qNorm, userNorm]]
        all  == Append(lex, call)
    IN  /\ lex' = SubSeq(all, Max(1, Len(all) - MaxScores + 1), Len(all))
        /\ UNCHANGED <<heap, cachedFAQ, lastFetchMs, now, urlSet, debugFaq, proc, budget>>

\* the events that may follow when k events are left to start
Following(k, T) == IF k = 0 THEN {NoEvent} ELSE Events(T)

\* the requests: a GET, a POST with a wrong signature, a signed POST whose
\* body is not JSON, and signed POSTs whose body is JSON: an object with a
\* list of events, null, and an object whose events are a number
Requests ==
    { [method |-> "GET",  sigOk |-> TRUE,  jsonOk |-> TRUE,  body |-> "events"],
      [method |-> "POST", sigOk |-> FALSE, jsonOk |-> TRUE,  body |-> "events"],
      [method |-> "POST", sigOk |-> TRUE,  jsonOk |-> FALSE, body |-> "none"],
      [method |-> "POST", sigOk |-> TRUE,  jsonOk |-> TRUE,  body |-> "events"],
      [method |-> "POST", sigOk |-> TRUE,  jsonOk |-> TRUE,  body |-> "null"],
      [method |-> "POST", sigOk |-> TRUE,  jsonOk |-> TRUE,  body |-> "notIterable"] }

\* the signed POSTs with a JSON body
ValidRequests == {r \in Requests : r.method = "POST" /\ r.sigOk /\ r.jsonOk}

\* the values getEmbedding may resolve with: the vectors S, or undefined
Embeddings(S) == {Vector(v) : v \in S} \cup {Undefined}

\* the steps of the invocations P on the requests R of at most n events over
\* the texts T, the embeddings endpoint answering from V and the sheet from
\* C, the clock advancing by the amounts D
NextOver(P, R, n, T, V, C, D) ==
    \/ \E p \in P, r \in R : Request(p, r.method, r.sigOk, r.jsonOk, r.body)
    \/ \E p \in P, ok \in BOOLEAN :
           \E k \in IF ok /\ proc[p].req \in ValidRequests /\ proc[p].req.body = "events"
                        THEN 0..n ELSE {0} :
               \E e \in Following(k, T) : BodyRead(p, ok, k, e)
    \/ \E p \in P, ok \in BOOLEAN, data \in C :
           /\ ~ok => data = <<>>
           /\ \E e \in Following(proc[p].evLeft, T) : FetchDone(p, ok, data, e)
    \/ \E p \in P, ok \in BOOLEAN, emb \in V : IndexEmbDone(p, ok, emb)
    \/ \E p \in P, ok \in BOOLEAN, emb \in V : QueryEmbDone(p, ok, emb)
    \/ \E p \in P, ok \in BOOLEAN : OpenAIDone(p, ok)
    \/ \E p \in P, ok \in BOOLEAN :
           \E e \in Following(proc[p].evLeft, T) : ReplyDone(p, ok, e)
    \/ \E p \in P, ok \in BOOLEAN :
           \E e \in Following(proc[p].evLeft, T) : ApologyDone(p, ok, e)
    \/ \E d \in D : Tick(d)

\* two invocations interleaving at their awaits, DEBUG_FAQ unset
Init == InitOver({FALSE}, MaxReloads)

Next ==
    NextOver(Procs, Requests, MaxConcEvents, ConcTexts, Embeddings(ConcVecs),
             ConcCorpora, CoarseTicks)

Spec == Init /\ [][Next]_vars

\* one invocation at a time, on the full inputs, DEBUG_FAQ set or not
InitSeq == InitOver(BOOLEAN, MaxSeqReloads)

NextSeq ==
    NextOver({1}, Requests, MaxEvents, Texts, Embeddings(Vecs), Corpora, CoarseTicks)

SpecSeq == InitSeq /\ [][NextSeq]_vars

\* one invocation at a time, on the inputs on which records tie
InitRank == InitOver({FALSE}, MaxSeqReloads)

NextRank ==
    NextOver({1}, ValidRequests, MaxEvents, RankTexts, Embeddings(RankVecs),
             RankCorpora, CoarseTicks)

SpecRank == InitRank /\ [][NextRank]_vars

\* the keyword-only bot's simpleScore applied to normalized strings
InitLex == InitOver({FALSE}, 0)

NextLex ==
    \E q \in LexQuestions, userText \in LexTexts :
        SimpleScore(normalize(q), normalize(userText))

SpecLex == InitLex /\ [][NextLex]_vars

\* one invocation looping over the events of its request, on the smaller
\* inputs, DEBUG_FAQ unset
InitLoop == InitOver({FALSE}, MaxLoopReloads)

NextLoop ==
    NextOver({1}, ValidRequests, MaxLoopEvents, ConcTexts, Embeddings(ConcVecs),
             ConcCorpora, FineTicks)

SpecLoop == InitLoop /\ [][NextLoop]_vars

(* ======================================================================= *)
(*                               properties                                *)
(* ======================================================================= *)

\* x is among the calls and outcomes logged for the current event of L
Did(L, x) == \E i \in 1..Len(L.steps) : L.steps[i] = x

\* the position of the first x in the log of L, 0 when there is none
Pos(L, x) ==
    IF Did(L, x) THEN CHOOSE i \in 1..Len(L.steps) :
                          L.steps[i] = x /\ \A j \in 1..(i - 1) : L.steps[j] # x
    ELSE 0

\* findFAQ has returned to the handler for the current event of L
Returned(L) == Did(L, "findFAQ:hit") \/ Did(L, "findFAQ:null")

\* this step starts a new event of invocation p
Begins(p) ==
    /\ proc'[p].pc \notin {"idle", "readRawBody", "responded", "thrown"}
    /\ \/ proc[p].pc = "readRawBody"
       \/ proc[p].pc \in {"reply", "apology"} /\ proc'[p].evLeft = proc[p].evLeft - 1

\* this step calls loadFAQwithEmbeddings for invocation p
LoadCalled(p) == Begins(p) /\ proc'[p].ev.type = "text"

(* ---- C1 ---- *)

\* C1: when the corpus fetch of a refresh fails while a non-empty generation
\* is cached, loadFAQwithEmbeddings returns the cached array to its caller and
\* leaves cachedFAQ, its records and lastFetchMs unchanged.
C1_StaleIndexReturnedOnFetchFailure ==
    [][\A p \in Procs :
          ( /\ proc[p].pc = "fetch"
            /\ Did(proc'[p], "fetch:failed")
            /\ Len(heap[cachedFAQ]) > 0 )
          => /\ proc'[p].list = cachedFAQ
             /\ ~Did(proc'[p], "findFAQ:throw")
             /\ ~Did(proc'[p], "loadFAQwithEmbeddings:throw")
             /\ cachedFAQ' = cachedFAQ
             /\ heap'[cachedFAQ] = heap[cachedFAQ]
             /\ lastFetchMs' = lastFetchMs]_vars

(* ---- C2 ---- *)

\* C2: whatever external call fails, findFAQ ends with a match or with null;
\* it never ends by throwing to the handler.
C2_FindFAQNeverThrows ==
    \A p \in Procs : ~Did(proc[p], "findFAQ:throw")

(* ---- C3 ---- *)

\* C3: an array that a refresh is still filling (the refresh is suspended at
\* an await of its loop over the rows) is neither the array cachedFAQ refers
\* to nor the list any invocation is resolving against: what is shared is the
\* initial empty array or an array whose refresh has finished its loop.
C3_NoPartialGenerationShared ==
    \A p \in Procs :
        proc[p].pc = "indexEmb"
        => /\ cachedFAQ # proc[p].out
           /\ \A q \in Procs : proc[q].list # proc[p].out

\* a refresh holds a partly filled array while the other invocation is
\* resolving a query against the published generation
C3_Witness ==
    \E p, q \in Procs :
        /\ p # q
        /\ proc[p].pc = "indexEmb"
        /\ Len(heap[proc[p].out]) >= 1
        /\ Len(heap[proc[p].out]) < Len(proc[p].rows)
        /\ proc[q].pc = "queryEmb"
        /\ proc[q].list = cachedFAQ

(* ---- C4 ---- *)

\* the three parts of C4 for the current event of L
FirstRunsResolution(L) == L.steps # <<>> /\ L.steps[1] = "findFAQ"

GenerativeOnlyAfterNoMatch(L) ==
    Did(L, "callOpenAI")
    => Did(L, "findFAQ:null") /\ Pos(L, "findFAQ:null") < Pos(L, "callOpenAI")

MatchIsAnswered(L) ==
    Did(L, "findFAQ:hit")
    => /\ ~Did(L, "callOpenAI")
       /\ Pos(L, "replyToLine") = Pos(L, "findFAQ:hit") + 1
       /\ L.pc = "reply"
          => /\ L.pending.kind = "faq"
             /\ \E i \in 1..Len(heap[L.list]) :
                    /\ heap[L.list][i].q = L.hit.q
                    /\ heap[L.list][i].a = L.pending.body

\* C4 as stated: for every text message event the handler first runs findFAQ;
\* callOpenAI is called only after findFAQ returned null; when findFAQ returns
\* a match its answer is sent as the reply and callOpenAI is not called.
C4_ResolutionFirstForEveryTextEvent ==
    \A p \in Procs :
        proc[p].ev.type = "text"
        => /\ FirstRunsResolution(proc[p])
           /\ GenerativeOnlyAfterNoMatch(proc[p])
           /\ MatchIsAnswered(proc[p])

\* C4 as amended: the same, for every text message event other than the
\* debug command in an environment with DEBUG_FAQ set; the debug command
\* runs neither findFAQ nor callOpenAI.
C4_ResolutionFirstExceptDebug ==
    \A p \in Procs :
        proc[p].ev.type = "text"
        => /\ IF IsDebug(proc[p].ev)
                  THEN ~Did(proc[p], "findFAQ") /\ ~Did(proc[p], "callOpenAI")
                  ELSE FirstRunsResolution(proc[p])
           /\ GenerativeOnlyAfterNoMatch(proc[p])
           /\ MatchIsAnswered(proc[p])

\* findFAQ returned a match found by the keyword stage and its answer is the
\* reply in flight
C4_Witness ==
    \E p \in Procs :
        /\ proc[p].pc = "reply"
        /\ Did(proc[p], "findFAQ:hit")
        /\ proc[p].hit.via = "kw"
        /\ proc[p].pending = [kind |-> "faq", body |-> proc[p].hit.answer]

(* ---- C5 ---- *)

\* C5 as stated: a call of loadFAQwithEmbeddings goes on to reload exactly
\* when now - lastFetchMs >= FAQ_CACHE_MS (10 minutes), whatever the cached
\* generation contains; a call on a younger generation fetches nothing and
\* embeds no row.
C5_ReloadIffStale ==
    [][\A p \in Procs :
          LoadCalled(p)
          => /\ Did(proc'[p], "reload") <=> (now - lastFetchMs >= 600000)
             /\ now - lastFetchMs < 600000
                => /\ ~Did(proc'[p], "fetch")
                   /\ ~Did(proc'[p], "getEmbedding(row)")]_vars

\* C5 as amended: the call goes on to reload exactly when the cached
\* generation has zero records or now - lastFetchMs >= 10 minutes; a call on
\* a non-empty younger generation fetches nothing, embeds no row and returns
\* the cached array.
C5_ReloadIffEmptyOrStale ==
    [][\A p \in Procs :
          LoadCalled(p)
          => LET fresh == Len(heap[cachedFAQ]) # 0 /\ now - lastFetchMs < 600000
             IN  /\ Did(proc'[p], "reload") <=> ~fresh
                 /\ fresh => /\ ~Did(proc'[p], "fetch")
                             /\ ~Did(proc'[p], "getEmbedding(row)")
                             /\ proc'[p].list = cachedFAQ
                             /\ UNCHANGED <<heap, cachedFAQ, lastFetchMs>>
                 /\ ~fresh /\ urlSet => Did(proc'[p], "fetch")]_vars

\* a call served from a generation one millisecond short of the interval
C5_Witness ==
    \E p \in Procs :
        /\ proc[p].pc = "queryEmb"
        /\ Did(proc[p], "cached")
        /\ now - lastFetchMs = 600000 - 1

(* ---- C6 ---- *)

\* C6: when the array findFAQ got from loadFAQwithEmbeddings has zero
\* records, findFAQ returns null and has neither called getEmbedding for the
\* query nor run the keyword stage.
C6_EmptyIndexNoMatchWithoutScoring ==
    \A p \in Procs :
        ( /\ Did(proc[p], "findFAQ")
          /\ proc[p].list # 0
          /\ Len(heap[proc[p].list]) = 0 )
        => /\ Did(proc[p], "findFAQ:null")
           /\ proc[p].hit = NoMatch
           /\ ~Did(proc[p], "getEmbedding(query)")
           /\ ~Did(proc[p], "keyword")

\* findFAQ has returned on a generation that was fetched and came out empty
C6_Witness ==
    \E p \in Procs :
        /\ Did(proc[p], "fetch")
        /\ proc[p].list # 0
        /\ Len(heap[proc[p].list]) = 0
        /\ Did(proc[p], "findFAQ:null")

(* ---- C7 ---- *)

\* C7: when getEmbedding(userText) fails, findFAQ does not throw; it runs the
\* keyword stage and returns what the keyword stage alone yields on its list.
C7_EmbeddingFailureDegradesToLexical ==
    \A p \in Procs :
        Did(proc[p], "getEmbedding(query):failed")
        => /\ ~Did(proc[p], "findFAQ:throw")
           /\ Did(proc[p], "keyword")
           /\ Returned(proc[p])
           /\ proc[p].hit = KeywordStage(heap[proc[p].list], proc[p].ev.text)

\* the query embedding failed and the keyword stage found a match
C7_Witness ==
    \E p \in Procs :
        /\ Did(proc[p], "getEmbedding(query):failed")
        /\ proc[p].hit.via = "kw"

(* ---- C8 ---- *)

\* some record of list has the normalized question u
HasNormalizedQuestion(list, u) ==
    \E i \in 1..Len(list) : normalizeJa(list[i].q) = u

\* findFAQ returned a match; a keyword match of score 1 if the embedding failed
MatchedExactly(L) ==
    /\ L.hit.via \in {"emb", "kw"}
    /\ Did(L, "getEmbedding(query):failed")
       => L.hit.via = "kw" /\ L.hit.score[1] = L.hit.score[2]

\* C8 as stated: when the normalized query equals the normalized question of
\* an indexed record, findFAQ returns a semantic or keyword match, never null;
\* if the query embedding failed, a keyword match with score 1.
C8_ExactNormalizedQuestionMatches ==
    \A p \in Procs :
        ( /\ Returned(proc[p])
          /\ HasNormalizedQuestion(heap[proc[p].list], normalizeJa(proc[p].ev.text)) )
        => MatchedExactly(proc[p])

\* C8 as amended: the same for a query whose normalized text is not empty.
C8_ExactNonEmptyNormalizedQuestionMatches ==
    \A p \in Procs :
        ( /\ Returned(proc[p])
          /\ normalizeJa(proc[p].ev.text) # <<>>
          /\ HasNormalizedQuestion(heap[proc[p].list], normalizeJa(proc[p].ev.text)) )
        => MatchedExactly(proc[p])

\* the query embedding failed, and a query that differs from the stored
\* question before normalization got the keyword match of score 1
C8_Witness ==
    \E p \in Procs :
        /\ Did(proc[p], "getEmbedding(query):failed")
        /\ proc[p].hit.via = "kw"
        /\ proc[p].hit.score[1] = proc[p].hit.score[2]
        /\ proc[p].hit.q # proc[p].ev.text
        /\ normalizeJa(proc[p].hit.q) = normalizeJa(proc[p].ev.text)

(* ---- C9 ---- *)

\* the semantic score of a record with embedding y for the query embedding
\* x: their cosine similarity, which is no number unless both are vectors
SemanticScore(x, y) ==
    IF x.isArray /\ y.isArray THEN Similarity(x.elems, y.elems) ELSE DNaN

\* the number 0.65
SemanticThreshold == DFromRatio(65, 100)

\* record k of list attains the maximum semantic score for userEmb
AttainsMaxSim(list, userEmb, k) ==
    /\ ~SemanticScore(userEmb, list[k].emb).nan
    /\ \A j \in 1..Len(list) :
           ~SimGt(SemanticScore(userEmb, list[j].emb),
                  SemanticScore(userEmb, list[k].emb))

\* some record of list has a semantic score for userEmb of at least 0.65
SemanticClears(list, userEmb) ==
    \E i \in 1..Len(list) :
        SimGeq(SemanticScore(userEmb, list[i].emb), SemanticThreshold)

\* C9: when the query embedding succeeded and the maximum similarity over the
\* indexed records is at least 0.65, findFAQ returns the answer of a record
\* attaining the maximum, via the embedding stage, and the keyword stage is
\* not run.
C9_SemanticMaximumWins ==
    \A p \in Procs :
        ( /\ Returned(proc[p])
          /\ proc[p].embOk
          /\ SemanticClears(heap[proc[p].list], proc[p].userEmb) )
        => /\ proc[p].hit.via = "emb"
           /\ ~Did(proc[p], "keyword")
           /\ \E k \in 1..Len(heap[proc[p].list]) :
                  /\ AttainsMaxSim(heap[proc[p].list], proc[p].userEmb, k)
                  /\ heap[proc[p].list][k].q = proc[p].hit.q
                  /\ heap[proc[p].list][k].a = proc[p].hit.answer

(* ---- C10 ---- *)

\* the lexical score of a record with normalized question qn for the
\* normalized query u
LexicalScore(u, qn) == KeywordScore(u, qn)

\* some record of list has a lexical score of at least 0.6 for u
LexicalClears(list, u) ==
    \E i \in 1..Len(list) : RLeq(<<3, 5>>, LexicalScore(u, list[i].qNorm))

\* C10: findFAQ returns null exactly when the embedding stage produced no
\* hit (the embedding failed or every similarity is below 0.65) and every
\* record's lexical score is below 0.6; with no embedding hit and a lexical
\* score of at least 0.6 it returns a keyword match for a record attaining
\* the maximum lexical score.
C10_NoMatchIffNothingClears ==
    \A p \in Procs :
        Returned(proc[p])
        => LET L      == proc[p]
               list   == heap[L.list]
               u      == normalizeJa(L.ev.text)
               semHit == L.embOk /\ SemanticClears(list, L.userEmb)
               lexHit == LexicalClears(list, u)
           IN  /\ L.hit.via = "none" <=> ~semHit /\ ~lexHit
               /\ ~semHit /\ lexHit
                  => /\ L.hit.via = "kw"
                     /\ \E k \in 1..Len(list) :
                            /\ list[k].q = L.hit.q
                            /\ list[k].a = L.hit.answer
                            /\ L.hit.score = LexicalScore(u, list[k].qNorm)
                            /\ \A j \in 1..Len(list) :
                                   RLeq(LexicalScore(u, list[j].qNorm),
                                        LexicalScore(u, list[k].qNorm))

(* ---- C11 ---- *)

\* the position in list of the record a match was taken from
HitIndex(list, hit) ==
    CHOOSE k \in 1..Len(list) : list[k].q = hit.q /\ list[k].a = hit.answer

\* C11: the record findFAQ returns is the first of those with the maximum
\* score: every record before it in the index has a strictly smaller cosine
\* similarity (or none) when the match is semantic, and a strictly smaller
\* keyword score when the match is lexical.
C11_FirstOfMaximumWins ==
    \A p \in Procs :
        Did(proc[p], "findFAQ:hit")
        => LET L    == proc[p]
               list == heap[L.list]
               k    == HitIndex(list, L.hit)
               u    == normalizeJa(L.ev.text)
           IN  /\ L.hit.via = "emb"
                  => \A j \in 1..(k - 1) :
                         \/ SemanticScore(L.userEmb, list[j].emb).nan
                         \/ SimGt(SemanticScore(L.userEmb, list[k].emb),
                                  SemanticScore(L.userEmb, list[j].emb))
               /\ L.hit.via = "kw"
                  => \A j \in 1..(k - 1) :
                         RLess(KeywordScore(u, list[j].qNorm),
                               KeywordScore(u, list[k].qNorm))

\* two records have the same maximum cosine similarity with the query, as
\* computed, and the semantic match is the first of them, although their
\* vectors differ
C11_Witness ==
    \E p \in Procs :
        LET L    == proc[p]
            list == heap[L.list]
        IN  /\ Did(L, "findFAQ:hit")
            /\ L.hit.via = "emb"
            /\ Len(list) = 2
            /\ list[1].emb # list[2].emb
            /\ DCmp(SemanticScore(L.userEmb, list[1].emb),
                    SemanticScore(L.userEmb, list[2].emb)) = 0
            /\ L.hit.q = list[1].q
            /\ L.hit.q # list[2].q

(* ---- C12 ---- *)

\* rec has a non-empty trimmed question and answer and an embedding vector
WellFormedRecord(rec) ==
    /\ rec.q # <<>> /\ Trim(rec.q) = rec.q
    /\ rec.a # <<>> /\ Trim(rec.a) = rec.a
    /\ rec.emb.isArray /\ Len(rec.emb.elems) > 0

\* the outcomes of the embedding calls of the refresh of L so far, in order
EmbeddingOutcomes(L) ==
    SelectSeq(L.steps, LAMBDA x : x \in {"getEmbedding(row):ok",
                                         "getEmbedding(row):failed"})

\* the rows among the first Len(outcomes) whose embedding call succeeded, in
\* corpus order
RECURSIVE EmbeddedRows(_, _, _)
EmbeddedRows(rows, outcomes, j) ==
    IF j > Len(outcomes) THEN <<>>
    ELSE (IF outcomes[j] = "getEmbedding(row):ok" THEN <<rows[j]>> ELSE <<>>)
         \o EmbeddedRows(rows, outcomes, j + 1)

\* arr holds exactly the rows kept, each with its normalized question
HoldsRows(arr, kept) ==
    /\ Len(arr) = Len(kept)
    /\ \A i \in 1..Len(arr) :
           /\ arr[i].q = kept[i].q
           /\ arr[i].a = kept[i].a
           /\ arr[i].tags = kept[i].tags
           /\ arr[i].qNorm = normalizeJa(kept[i].q)

\* C12: every record of every array (the cached generation, older ones and
\* those under construction) has a non-empty trimmed question, a non-empty
\* trimmed answer and an embedding; each step of the loop over the rows
\* leaves in the array exactly the rows whose embedding call succeeded, in
\* corpus order, a failed call dropping its row without ending the refresh;
\* and the last step publishes that array with the time the refresh started.
C12_GenerationHoldsEmbeddedValidRows ==
    [][/\ \A i \in 1..Len(heap') : \A j \in 1..Len(heap'[i]) :
              WellFormedRecord(heap'[i][j])
       /\ \A p \in Procs :
              proc[p].pc = "indexEmb" /\ proc'[p] # proc[p]
              => LET L        == proc[p]
                     outcomes == EmbeddingOutcomes(proc'[p])
                 IN  /\ Len(outcomes) = L.idx
                     /\ HoldsRows(heap'[L.out], EmbeddedRows(L.rows, outcomes, 1))
                     /\ ~Did(proc'[p], "findFAQ:throw")
                     /\ ~Did(proc'[p], "loadFAQwithEmbeddings:throw")
                     /\ IF L.idx < Len(L.rows)
                            THEN /\ proc'[p].pc = "indexEmb"
                                 /\ proc'[p].idx = L.idx + 1
                                 /\ UNCHANGED <<cachedFAQ, lastFetchMs>>
                            ELSE /\ cachedFAQ' = L.out
                                 /\ lastFetchMs' = L.loadNow
                                 /\ proc'[p].list = L.out]_vars

(* ---- C13 ---- *)

\* the rule of the lexical scorer that applies to the normalized strings q
\* and u: containment (one contains the other, equal strings apart), or the
\* common prefix (neither contains the other)
ByContainment(q, u) ==
    q # <<>> /\ u # <<>> /\ q # u /\ (Includes(u, q) \/ Includes(q, u))

ByPrefixOnly(q, u) ==
    q # <<>> /\ u # <<>> /\ ~Includes(u, q) /\ ~Includes(q, u)

\* the numbers 0.3 and 0.4
ThreeTenths == DFromRatio(3, 10)

FourTenths == DFromRatio(4, 10)

\* C13 as stated: over all pairs of normalized strings, a score produced by
\* the prefix rule is never greater than a score produced by the containment
\* rule.
C13_PrefixNeverAboveContainment ==
    \A i, j \in 1..Len(lex) :
        ( /\ ByPrefixOnly(lex[i].qNorm, lex[i].userNorm)
          /\ ByContainment(lex[j].qNorm, lex[j].userNorm) )
        => DCmp(lex[i].score, lex[j].score) <= 0

\* C13 as amended: a score produced by the prefix rule is below 0.3; it is
\* below every containment score of at least 0.3 and below the threshold 0.4
\* of matchFAQ.
C13_PrefixBelowDampingFactor ==
    \A i \in 1..Len(lex) :
        ByPrefixOnly(lex[i].qNorm, lex[i].userNorm)
        => /\ DCmp(lex[i].score, ThreeTenths) = -1
           /\ DCmp(lex[i].score, FourTenths) = -1
           /\ \A j \in 1..Len(lex) :
                  ( /\ ByContainment(lex[j].qNorm, lex[j].userNorm)
                    /\ DCmp(lex[j].score, ThreeTenths) >= 0 )
                  => DCmp(lex[i].score, lex[j].score) = -1

\* simpleScore has returned a prefix score above 0 and then a containment
\* score of 0.4, which is the greater
C13_Witness ==
    /\ Len(lex) = 2
    /\ ByPrefixOnly(lex[1].qNorm, lex[1].userNorm)
    /\ DCmp(lex[1].score, DZero) = 1
    /\ ByContainment(lex[2].qNorm, lex[2].userNorm)
    /\ DCmp(lex[2].score, FourTenths) = 0
    /\ DCmp(lex[1].score, lex[2].score) = -1

(* ---- C14 ---- *)

\* the similarity x, an undefined one (NaN) counted as the number 0
ZeroIfUndefined(x) == IF x.nan THEN DZero ELSE x

\* the best record of a ranking in which an undefined similarity is the
\* score 0
RECURSIVE RankingWithZero(_, _, _, _)
RankingWithZero(list, userEmb, i, best) ==
    IF i > Len(list) THEN best
    ELSE LET sim == ZeroIfUndefined(SemanticScore(userEmb, list[i].emb))
         IN  RankingWithZero(list, userEmb, i + 1,
                 IF SimGt(sim, best.sim)
                     THEN [sim |-> sim, item |-> i, threw |-> FALSE] ELSE best)

\* every record of list has a vector
AllEmbedded(list) == \A i \in 1..Len(list) : list[i].emb.isArray

\* C14: in every findFAQ call on vectors (the query embedding resolved with
\* one and every record has one), no similarity the ranking uses is NaN,
\* and the best record of the semantic loop is the one it would be with
\* every undefined similarity replaced by the score 0.
C14_UndefinedCosineRanksAsZero ==
    \A p \in Procs :
        ( /\ Returned(proc[p])
          /\ proc[p].embOk
          /\ proc[p].userEmb.isArray
          /\ AllEmbedded(heap[proc[p].list]) )
        => LET list == heap[proc[p].list]
               emb  == proc[p].userEmb
           IN  /\ \A i \in 1..Len(list) : ~SemanticScore(emb, list[i].emb).nan
               /\ SemanticLoop(list, emb, 1, InitialBest)
                      = RankingWithZero(list, emb, 1, InitialBest)

(* ---- C15 ---- *)

\* u and qn both contain the same strong-signal term
SharesStrongTerm(u, qn) ==
    \E term \in {EIGYOJIKAN, TEIKYUBI} : Includes(u, term) /\ Includes(qn, term)

\* the generic containment score of the normalized query u and question qn
ContainmentScore(u, qn) ==
    IF Includes(u, qn) THEN <<Len(qn), IF Len(u) = 0 THEN 1 ELSE Len(u)>>
    ELSE IF Includes(qn, u) THEN <<Len(u), IF Len(qn) = 0 THEN 1 ELSE Len(qn)>>
    ELSE <<0, 1>>

\* C15: once findFAQ has run its keyword stage, a record whose normalized
\* question shares a strong-signal term with the normalized query has a
\* keyword score of at least 0.8 and findFAQ has returned a keyword match of
\* score at least 0.8; a record that shares no such term with the query has
\* exactly the containment score.
C15_StrongTermForcesMatch ==
    \A p \in Procs :
        Returned(proc[p]) /\ Did(proc[p], "keyword")
        => LET L    == proc[p]
               list == heap[L.list]
               u    == normalizeJa(L.ev.text)
           IN  \A i \in 1..Len(list) :
                   IF SharesStrongTerm(u, list[i].qNorm)
                       THEN /\ RLeq(<<4, 5>>, KeywordScore(u, list[i].qNorm))
                            /\ L.hit.via = "kw"
                            /\ RLeq(<<4, 5>>, L.hit.score)
                       ELSE /\ RLeq(KeywordScore(u, list[i].qNorm),
                                    ContainmentScore(u, list[i].qNorm))
                            /\ RLeq(ContainmentScore(u, list[i].qNorm),
                                    KeywordScore(u, list[i].qNorm))

\* the keyword stage returned, with the score 0.8, a record whose question
\* shares "opening hours" with the query while neither contains the other
C15_Witness ==
    \E p \in Procs :
        LET L == proc[p]
            u == normalizeJa(L.ev.text)
        IN  /\ Did(L, "keyword")
            /\ L.hit.via = "kw"
            /\ L.hit.score[1] * 5 = L.hit.score[2] * 4
            /\ Includes(u, EIGYOJIKAN)
            /\ Includes(normalizeJa(L.hit.q), EIGYOJIKAN)
            /\ ~Includes(u, normalizeJa(L.hit.q))
            /\ ~Includes(normalizeJa(L.hit.q), u)

(* ---- C16 ---- *)

\* C16: under any interleaving of the refreshes of concurrent invocations,
\* lastFetchMs never decreases: a refresh that started earlier never
\* publishes over the generation of a refresh that started later.
C16_GenerationTimestampNeverDecreases ==
    [][lastFetchMs' >= lastFetchMs]_vars

(* ---- C17 ---- *)

\* the request of L is a POST with a valid signature and a JSON body
Accepted(L) == L.req.method = "POST" /\ L.req.sigOk /\ L.req.jsonOk

\* C17: in an invocation on a signed JSON request whose body has been read,
\* no error leaves the handler; the step that has read the body starts the
\* first event when there is one and otherwise responds; every step that
\* fails (fetch, embedding, generative call, reply) stays on the same event
\* with no response sent and the following events still to come; every step
\* that ends an event, the apology delivered or not, starts the next event
\* when one is left and otherwise responds; and the only response ever sent
\* is 200, after the last event.
C17_EveryEventHandledThen200 ==
    [][\A p \in Procs :
          LET L == proc[p]
              M == proc'[p]
          IN  M # L /\ Accepted(M) /\ ~Did(M, "readRawBody:throw")
              => /\ M.pc # "thrown"
                 /\ L.pc = "readRawBody"
                    => \/ M.pc = "responded" /\ M.status = 200
                       \/ /\ M.pc \notin {"idle", "readRawBody", "responded", "apology"}
                          /\ M.ev.type \in {"text", "other"}
                          /\ M.status = 0
                 /\ M.pc = "apology"
                    => /\ L.pc \in {"fetch", "openai", "reply"}
                       /\ M.ev = L.ev
                       /\ M.evLeft = L.evLeft
                       /\ M.status = 0
                 /\ ( \/ L.pc = "apology"
                      \/ L.pc = "reply" /\ M.pc # "apology" )
                    => IF L.evLeft > 0
                           THEN /\ M.pc \notin {"idle", "readRawBody", "responded",
                                                 "apology"}
                                /\ M.evLeft = L.evLeft - 1
                                /\ M.ev.type \in {"text", "other"}
                                /\ M.status = 0
                           ELSE M.pc = "responded" /\ M.status = 200
                 /\ L.pc \in {"fetch", "indexEmb", "queryEmb", "openai"}
                    => M.evLeft = L.evLeft /\ M.ev = L.ev /\ M.status = 0
                 /\ M.status # 0
                    => /\ M.status = 200
                       /\ M.pc = "responded"
                       /\ L.evLeft = 0
                       /\ L.pc \in {"readRawBody", "reply", "apology"}]_vars

(* ---- C18 ---- *)

\* how many times x is in the log of the current event of L
Count(L, x) == Cardinality({i \in 1..Len(L.steps) : L.steps[i] = x})

\* the log entries of an error reaching the catch block
Throws ==
    {"findFAQ:throw", "loadFAQwithEmbeddings:throw", "callOpenAI:throw",
     "replyToLine:throw"}

\* C18: for each event the try block calls replyToLine at most once and the
\* catch block at most once (two attempts at most); the apology is attempted
\* only right after an error reached the catch block, and if the try block
\* had called replyToLine, only after that call failed; a reply that is
\* delivered ends the event, so at most one reply is delivered per event.
C18_AtMostOneReplyDelivered ==
    [][\A p \in Procs :
          LET L == proc[p]
              M == proc'[p]
          IN  /\ Count(M, "replyToLine") <= 1
              /\ Count(M, "apology") <= 1
              /\ Did(M, "apology")
                 => /\ Pos(M, "apology") > 1
                    /\ M.steps[Pos(M, "apology") - 1] \in Throws
                    /\ Did(M, "replyToLine") => Did(M, "replyToLine:throw")
              /\ M.pc = "apology" => M.pending.kind = "apology"
              /\ ( /\ M # L
                   /\ \/ L.pc = "apology"
                      \/ L.pc = "reply" /\ ~Did(M, "replyToLine:throw") )
                 => \/ M.pc = "responded"
                    \/ M.evLeft = L.evLeft - 1 /\ ~Did(M, "apology")]_vars

\* the reply of the try block failed and the apology, the second attempt for
\* the event, is in flight
C18_Witness ==
    \E p \in Procs :
        /\ proc[p].pc = "apology"
        /\ Did(proc[p], "replyToLine")
        /\ Did(proc[p], "replyToLine:throw")
        /\ proc[p].hit.via # "none"

(* ---- C19 ---- *)

\* the request of L is a POST whose signature does not match its body
BadSignature(L) == L.req.method = "POST" /\ ~L.req.sigOk

\* C19: an invocation on a POST with a wrong signature reads the body and
\* then responds 401 (unless the request stream fails, which ends the
\* handler); neither step changes cachedFAQ, any array or lastFetchMs; the
\* invocation handles no event: it never calls loadFAQwithEmbeddings,
\* findFAQ, getEmbedding, callOpenAI or replyToLine, and once it has
\* responded it stays as it is.
C19_BadSignatureRejectedWithoutEffect ==
    [][\A p \in Procs :
          LET L == proc[p]
              M == proc'[p]
          IN  BadSignature(M) /\ M # L
              => /\ UNCHANGED <<heap, cachedFAQ, lastFetchMs>>
                 /\ M.ev = NoEvent
                 /\ M.pending = NoReply
                 /\ M.list = 0 /\ M.out = 0
                 /\ \/ /\ L.pc = "idle"
                       /\ M.pc = "readRawBody" /\ M.status = 0 /\ M.steps = <<>>
                    \/ /\ L.pc = "readRawBody"
                       /\ M.pc = "responded" /\ M.status = 401 /\ M.steps = <<>>
                    \/ /\ L.pc = "readRawBody"
                       /\ M.pc = "thrown" /\ M.status = 0
                       /\ M.steps = <<"readRawBody:throw">>]_vars

\* a request with a wrong signature has been answered 401 while the cache
\* holds a generation with records that another invocation resolves against
C19_Witness ==
    \E p, q \in Procs :
        /\ BadSignature(proc[p])
        /\ proc[p].status = 401
        /\ Len(heap[cachedFAQ]) > 0
        /\ proc[q].list = cachedFAQ

====
